---- MODULE Spec2Model ----
(***************************************************************************)
(* Model of backend/main.py: the registration gateway (FastAPI handlers    *)
(* register, list_profiles, approve, block, delete_profile) over an        *)
(* external identity provider (auth accounts) and a "profiles" table.      *)
(*                                                                         *)
(* Text values (emails, names, status strings, search strings) are tuples  *)
(* of one-character strings so that str.lower() and ilike are computed     *)
(* character by character.  An optional value (Python `str | None`) is a   *)
(* record [present, val]; None is [present |-> FALSE, val |-> <<>>].        *)
(* An account id is the one-element tuple <<n>>; "" is <<>>.                *)
(*                                                                         *)
(* A handler is a sequence of external calls; each call is one step, and  *)
(* every call may fail (the handler sees an exception): the input `fails`  *)
(* or `fault` of a step says whether its call fails.                       *)
(* The service is configured (get_supabase returns a client).  A          *)
(* registration payload passes request validation; an admin payload may   *)
(* carry an email that does not (the empty string), and is then answered   *)
(* 422 before its handler runs.                                            *)
(***************************************************************************)
EXTENDS Integers, Sequences, FiniteSets, TLC

VARIABLES
    users,      \* identity-provider accounts: set of [id, email]
    profiles,   \* the "profiles" table: its rows in created_at order
    nextId,     \* next fresh account id of the identity provider
    resp,       \* the request answered by the last step and its response;
                \* NoResponse when the last step answered none
    regId,      \* history: email -> user_id of the last successful register
                \* since the last delete request arrived
    prevStatus, \* history: when the last step answered a successful register
                \* of an email with regId set, the status its row had before
    reqs,       \* worker -> the request it is handling
    started,    \* number of requests taken so far (counted runs)
    lastStatus  \* history: account number -> the status the last upsert or
                \* update wrote to the row with that id

vars == <<users, profiles, nextId, resp, regId, prevStatus, reqs, started, lastStatus>>

----------------------------------------------------------------------------
(* Bounds *)

MaxAccounts == 2
MaxStarted == 4

----------------------------------------------------------------------------
(* Values *)

None == [present |-> FALSE, val |-> <<>>]
Some(v) == [present |-> TRUE, val |-> v]

\* Python truthiness of `str | None`: None and "" are falsy.
Truthy(o) == o.present /\ o.val # <<>>

IdStr(n) == <<n>>

Pending == <<"p", "e", "n", "d", "i", "n", "g">>
Approved == <<"a", "p", "p", "r", "o", "v", "e", "d">>
Block == <<"b", "l", "o", "c", "k">>
All == <<"a", "l", "l">>

EmailA == <<"a", "@", "x", ".", "i", "o">>
EmailB == <<"b", "@", "x", ".", "i", "o">>
Emails == {EmailA, EmailB}

\* Registration payloads (class Registration).
PayloadAna ==
    [email |-> EmailA,
     full_name |-> <<"A", "n", "a">>, person_type |-> <<"p", "f">>,
     country |-> None, state |-> None, city |-> None, cpf_cnpj |-> None,
     phone_area |-> None, phone_number |-> None,
     device_fingerprint |-> <<"f", "1">>]
PayloadBob ==
    [email |-> EmailB,
     full_name |-> <<"B", "o", "b">>, person_type |-> <<"p", "j">>,
     country |-> Some(<<"B", "R">>), state |-> Some(<<"R", "J">>),
     city |-> Some(<<"R", "i", "o">>), cpf_cnpj |-> Some(<<"1", "2">>),
     phone_area |-> Some(<<"2", "1">>), phone_number |-> Some(<<"9">>),
     device_fingerprint |-> <<"f", "2">>]
Payloads == {PayloadAna, PayloadBob}

\* Request identifiers an admin call may carry: absent, "", or an id the
\* identity provider has issued so far (nid is its next fresh id); an email
\* absent, "", or one of the addresses.
IdParams(nid) == {None, Some(<<>>)} \cup {Some(IdStr(n)) : n \in 1..(nid - 1)}
EmailParams == {None, Some(<<>>)} \cup {Some(e) : e \in Emails}

\* Validation of an `EmailStr | None` field: None passes; a string passes
\* when it has one "@" after a non-empty local part and a domain with a "."
\* between two non-empty labels.
EmailStrValid(email) ==
    ~email.present
    \/ \E i \in 2..Len(email.val) :
           /\ email.val[i] = "@"
           /\ \A j \in 1..Len(email.val) : email.val[j] = "@" => j = i
           /\ \E k \in (i + 2)..(Len(email.val) - 1) : email.val[k] = "."

\* Values of the `status` query parameter of GET /admin/profiles.
StatusParams ==
    {None, Some(<<>>), Some(All), Some(<<"A", "l", "L">>),
     Some(Pending), Some(Approved), Some(Block),
     Some(<<"P", "e", "n", "d", "i", "n", "g">>)}

\* Values of the `search` query parameter (no ilike wildcards).
SearchParams == {None, Some(<<"A", "N">>), Some(<<"r", "i">>)}

\* The <<status, search>> pairs a list request is made with: each status
\* without a search, each search without a status, and one with both.
ListParams ==
    {<<st, None>> : st \in StatusParams} \cup {<<None, se>> : se \in SearchParams}
        \cup {<<Some(Pending), Some(<<"A", "N">>)>>}

----------------------------------------------------------------------------
(* str.lower() *)

\* str.lower() on one character: the 26 ASCII capitals are lowered, every
\* other character of the model's alphabet (lower-case letters, digits, "@")
\* is its own lower case.
LowerChar(c) ==
    CASE c = "A" -> "a" [] c = "B" -> "b" [] c = "C" -> "c" [] c = "D" -> "d"
      [] c = "E" -> "e" [] c = "F" -> "f" [] c = "G" -> "g" [] c = "H" -> "h"
      [] c = "I" -> "i" [] c = "J" -> "j" [] c = "K" -> "k" [] c = "L" -> "l"
      [] c = "M" -> "m" [] c = "N" -> "n" [] c = "O" -> "o" [] c = "P" -> "p"
      [] c = "Q" -> "q" [] c = "R" -> "r" [] c = "S" -> "s" [] c = "T" -> "t"
      [] c = "U" -> "u" [] c = "V" -> "v" [] c = "W" -> "w" [] c = "X" -> "x"
      [] c = "Y" -> "y" [] c = "Z" -> "z"
      [] OTHER -> c

LowerStr(s) == [i \in 1..Len(s) |-> LowerChar(s[i])]

\* `field ilike %pat%`: case-insensitive substring; a NULL field never matches.
Contains(s, pat) ==
    \E i \in 0..(Len(s) - Len(pat)) :
        \A j \in 1..Len(pat) : s[i + j] = pat[j]

Ilike(field, pat) == Contains(LowerStr(field), LowerStr(pat))
IlikeOpt(field, pat) == field.present /\ Ilike(field.val, pat)

----------------------------------------------------------------------------
(* The external service: identity provider and "profiles" table.  The      *)
(* table is the sequence of its rows in the order of created_at, which the *)
(* server assigns at insert and no request changes.                        *)

\* auth.admin.get_user_by_email: the id of the account with that email.
GetUserByEmail(us, email) ==
    IF \E u \in us : u.email = email
    THEN Some((CHOOSE u \in us : u.email = email).id)
    ELSE None

\* auth.admin.create_user rejects an email that already has an account.
AccountEmailTaken(us, email) == \E u \in us : u.email = email

\* auth.admin.create_user: a new account with a fresh id.
CreateUser(us, nid, email) == us \cup {[id |-> IdStr(nid), email |-> email]}

\* auth.admin.delete_user raises when no account has that id.
AccountExists(us, uid) == \E u \in us : u.id = uid

\* auth.admin.delete_user.
DeleteUser(us, uid) == {u \in us : u.id # uid}

RowSet(rows) == {rows[i] : i \in 1..Len(rows)}

\* Data model: `email` is unique in the table, so an upsert keyed by id is
\* rejected when another row already holds the email.
EmailTaken(rows, uid, email) ==
    \E r \in RowSet(rows) : r.email = email /\ r.id # uid

\* Mutant of NewRow: registration writes the row as approved.
NewRowApproved(uid, p) ==
    [id |-> uid, email |-> p.email,
     full_name |-> p.full_name, person_type |-> p.person_type,
     country |-> p.country, state |-> p.state,
     city |-> p.city, cpf_cnpj |-> p.cpf_cnpj,
     phone_area |-> p.phone_area, phone_number |-> p.phone_number,
     device_fingerprint |-> p.device_fingerprint,
     status |-> Approved]

\* The row written by register: every payload field and "status": "pending".
NewRow(uid, p) ==
    [id |-> uid, email |-> p.email,
     full_name |-> p.full_name, person_type |-> p.person_type,
     country |-> p.country, state |-> p.state,
     city |-> p.city, cpf_cnpj |-> p.cpf_cnpj,
     phone_area |-> p.phone_area, phone_number |-> p.phone_number,
     device_fingerprint |-> p.device_fingerprint,
     status |-> Pending]

\* Mutant of UpsertRow: an upsert that leaves the status of an existing row.
UpsertRowKeepStatus(rows, uid, p) ==
    IF \E r \in RowSet(rows) : r.id = uid
    THEN [i \in 1..Len(rows) |->
             IF rows[i].id = uid
             THEN [NewRow(uid, p) EXCEPT !.status = rows[i].status]
             ELSE rows[i]]
    ELSE Append(rows, NewRow(uid, p))

\* table("profiles").upsert(row): insert, or on a conflict on the key `id`
\* overwrite every supplied column (created_at is not supplied: the row
\* keeps its place).
UpsertRow(rows, uid, p) ==
    IF \E r \in RowSet(rows) : r.id = uid
    THEN [i \in 1..Len(rows) |-> IF rows[i].id = uid THEN NewRow(uid, p) ELSE rows[i]]
    ELSE Append(rows, NewRow(uid, p))

\* Mutant of Matches: the two identifiers combined with OR.
MatchesEither(r, id, email) ==
    \/ Truthy(id) /\ r.id = id.val
    \/ Truthy(email) /\ r.email = email.val

\* The filter built by `if payload.id: eq("id")` / `if payload.email: eq("email")`.
Matches(r, id, email) ==
    /\ Truthy(id) => r.id = id.val
    /\ Truthy(email) => r.email = email.val

MatchRows(rows, id, email) == SelectSeq(rows, LAMBDA r : Matches(r, id, email))

\* table("profiles").update({"status": st}) with the filter.
UpdateStatus(rows, id, email, st) ==
    [i \in 1..Len(rows) |->
        IF Matches(rows[i], id, email) THEN [rows[i] EXCEPT !.status = st] ELSE rows[i]]

\* Mutant of DeleteRows: the delete call removes nothing.
DeleteRowsKeepsAll(rows, id, email) == rows

\* table("profiles").delete() with the filter.
DeleteRows(rows, id, email) == SelectSeq(rows, LAMBDA r : ~Matches(r, id, email))

\* select("id").eq("email", e).maybe_single(): the id of the row, if any.
LookupIdByEmail(rows, email) ==
    IF \E r \in RowSet(rows) : r.email = email
    THEN Some((CHOOSE r \in RowSet(rows) : r.email = email).id)
    ELSE None

\* `if not payload.id and not payload.email`
MissingIdentifier(id, email) == ~Truthy(id) /\ ~Truthy(email)

\* Mutant of StatusFilterApplies: the comparison with "all" without lower().
StatusFilterAppliesCaseSensitive(status) == Truthy(status) /\ status.val # All

\* `if status and status.lower() != "all"`
StatusFilterApplies(status) == Truthy(status) /\ LowerStr(status.val) # All

\* `if search`
SearchApplies(search) == Truthy(search)

\* or_(full_name.ilike, email.ilike, cpf_cnpj.ilike, city.ilike)
SearchMatches(r, pat) ==
    \/ Ilike(r.full_name, pat)
    \/ Ilike(r.email, pat)
    \/ IlikeOpt(r.cpf_cnpj, pat)
    \/ IlikeOpt(r.city, pat)

\* The query of list_profiles: select("*").order("created_at") with the
\* optional status and search filters.
ListRows(rows, status, search) ==
    SelectSeq(rows, LAMBDA r :
        /\ StatusFilterApplies(status) => r.status = status.val
        /\ SearchApplies(search) => SearchMatches(r, search.val))

----------------------------------------------------------------------------
(* Requests and responses *)

Response(op, id, email, status, search, failed, code, user_id, data, calls) ==
    [op |-> op, id |-> id, email |-> email, status |-> status, search |-> search,
     failed |-> failed, code |-> code, user_id |-> user_id,
     data |-> data, calls |-> calls]

NoResponse == Response("none", None, None, None, None, "none", 0, None, <<>>, <<>>)

NoRegId == [e \in Emails |-> None]

Procs == {1, 2}

\* A request in a handler: its payload, the external call it makes next (pc),
\* the handler's local user_id, the rows its table call returned, and the
\* calls it has made.
Request(op, pc, id, email, status, search) ==
    [op |-> op, pc |-> pc, id |-> id, email |-> email, status |-> status,
     search |-> search, user_id |-> None, data |-> <<>>, calls |-> <<>>]

Idle == Request("none", "idle", None, None, None, None)

NoLastStatus == [n \in 1..MaxAccounts |-> None]

Init ==
    /\ users = {}
    /\ profiles = <<>>
    /\ nextId = 1
    /\ resp = NoResponse
    /\ regId = NoRegId
    /\ prevStatus = None
    /\ reqs = [p \in Procs |-> Idle]
    /\ started = 0
    /\ lastStatus = NoLastStatus

PayloadOf(email) == CHOOSE p \in Payloads : p.email = email

\* A request reaches worker q; `counted` runs count the requests they take.
Arrives(q, counted) ==
    /\ reqs[q].pc = "idle"
    /\ IF counted
       THEN started < MaxStarted /\ started' = started + 1
       ELSE UNCHANGED started

\* Request r of worker q has made the call r.pc and goes on to the call pc.
Goto(q, r, pc, user_id, data) ==
    /\ reqs' = [reqs EXCEPT ![q] = [r EXCEPT !.pc = pc, !.user_id = user_id,
                                             !.data = data,
                                             !.calls = Append(r.calls, r.pc)]]
    /\ resp' = NoResponse

\* Request r of worker q has made the call r.pc and is answered.
Answer(q, r, failed, code, user_id, data) ==
    /\ resp' = Response(r.op, r.id, r.email, r.status, r.search, failed, code,
                        user_id, data, Append(r.calls, r.pc))
    /\ reqs' = [reqs EXCEPT ![q] = Idle]

\* Request r is answered before any call: 422 by request validation
\* (failed = "validation"), or 400 by the handler's identifier check.
Reject(r, failed, code) ==
    /\ resp' = Response(r.op, r.id, r.email, r.status, r.search, failed, code,
                        None, <<>>, <<>>)
    /\ UNCHANGED reqs

\* The history of status writes after a table call wrote the rows `written`.
WroteStatus(last, written) ==
    [n \in 1..MaxAccounts |->
        IF \E r \in RowSet(written) : r.id = IdStr(n)
        THEN Some((CHOOSE r \in RowSet(written) : r.id = IdStr(n)).status)
        ELSE last[n]]

DroppedStatus(last, deleted) ==
    [n \in 1..MaxAccounts |->
        IF \E r \in RowSet(deleted) : r.id = IdStr(n) THEN None ELSE last[n]]

----------------------------------------------------------------------------
(* POST /auth/register: three external calls, one step each *)

CreateFaults == {"none", "create_user", "create_user_empty"}

\* A register request arrives and calls auth.admin.get_user_by_email; then
\* `if not user_id`.
RegLookup(q, p, fails, counted) ==
    LET r == Request("register", "get_user_by_email", None, Some(p.email), None, None)
        found == GetUserByEmail(users, p.email)
    IN  /\ Arrives(q, counted)
        /\ IF fails
           THEN Answer(q, r, "get_user_by_email", 400, None, <<>>)
           ELSE Goto(q, r, IF Truthy(found) THEN "upsert" ELSE "create_user", found, <<>>)
        /\ prevStatus' = None
        /\ UNCHANGED <<users, profiles, nextId, regId, lastStatus>>

\* register: auth.admin.create_user, then `if not user_id`; a rejected
\* creation or a response without an id ends the request with 400.
RegCreate(q, fault) ==
    LET r == reqs[q]
        fails == fault # "none" \/ AccountEmailTaken(users, r.email.val)
    IN  /\ r.pc = "create_user"
        /\ IF fails
           THEN /\ Answer(q, r, IF fault = "none" THEN "create_user" ELSE fault,
                          400, None, <<>>)
                /\ UNCHANGED <<users, nextId>>
           ELSE /\ nextId <= MaxAccounts
                /\ users' = CreateUser(users, nextId, r.email.val)
                /\ nextId' = nextId + 1
                /\ Goto(q, r, "upsert", Some(IdStr(nextId)), <<>>)
        /\ prevStatus' = None
        /\ UNCHANGED <<profiles, regId, started, lastStatus>>

\* Mutant of UsersOnUpsertError: a failed upsert deletes the account the
\* request created.
UsersOnUpsertErrorRollback(us, calls, uid) ==
    IF \E i \in 1..Len(calls) : calls[i] = "create_user"
    THEN DeleteUser(us, uid) ELSE us

\* The accounts after the upsert raised: the `except` clause answers 400 and
\* undoes nothing.
UsersOnUpsertError(us, calls, uid) == us

\* register: table("profiles").upsert(profile).execute(); the request is
\* answered either way.
RegUpsert(q, fails) ==
    LET r == reqs[q]
        uid == r.user_id.val
        p == PayloadOf(r.email.val)
        bad == fails \/ EmailTaken(profiles, uid, p.email)
        rows1 == UpsertRow(profiles, uid, p)
        before == MatchRows(profiles, r.user_id, None)
    IN  /\ r.pc = "upsert"
        /\ IF bad
           THEN /\ users' = UsersOnUpsertError(users, r.calls, uid)
                /\ Answer(q, r, "upsert", 400, None, <<>>)
                /\ prevStatus' = None
                /\ UNCHANGED <<profiles, regId, lastStatus>>
           ELSE /\ profiles' = rows1
                /\ lastStatus' = WroteStatus(lastStatus, <<NewRow(uid, p)>>)
                /\ Answer(q, r, "none", 200, r.user_id, MatchRows(rows1, r.user_id, None))
                /\ regId' = [regId EXCEPT ![p.email] = r.user_id]
                /\ prevStatus' = IF Truthy(regId[p.email]) /\ before # <<>>
                                 THEN Some(before[1].status) ELSE None
                /\ UNCHANGED users
        /\ UNCHANGED <<nextId, started>>

----------------------------------------------------------------------------
(* GET /admin/profiles: one external call *)

ListProfiles(q, status, search, fails, counted) ==
    LET r == Request("list", "select", None, None, status, search)
    IN  /\ Arrives(q, counted)
        /\ Answer(q, r, IF fails THEN "select" ELSE "none",
                  IF fails THEN 400 ELSE 200, None,
                  IF fails THEN <<>> ELSE ListRows(profiles, status, search))
        /\ prevStatus' = None
        /\ UNCHANGED <<users, profiles, nextId, regId, lastStatus>>

----------------------------------------------------------------------------
(* POST /admin/approve and POST /admin/block: validation of the payload,  *)
(* the identifier check, and one external call                            *)

SetStatus(q, op, st, id, email, fails, counted) ==
    LET r == Request(op, "update", id, email, None, None)
        rows1 == UpdateStatus(profiles, id, email, st)
    IN  /\ Arrives(q, counted)
        /\ IF ~EmailStrValid(email)
           THEN /\ ~fails
                /\ Reject(r, "validation", 422)
                /\ UNCHANGED <<profiles, lastStatus>>
           ELSE IF MissingIdentifier(id, email)
           THEN /\ ~fails
                /\ Reject(r, "none", 400)
                /\ UNCHANGED <<profiles, lastStatus>>
           ELSE IF fails
                THEN /\ Answer(q, r, "update", 400, None, <<>>)
                     /\ UNCHANGED <<profiles, lastStatus>>
                ELSE /\ profiles' = rows1
                     /\ lastStatus' = WroteStatus(lastStatus, MatchRows(rows1, id, email))
                     /\ Answer(q, r, "none", 200, None, MatchRows(rows1, id, email))
        /\ prevStatus' = None
        /\ UNCHANGED <<users, nextId, regId>>

Approve(q, id, email, fails, counted) ==
    SetStatus(q, "approve", Approved, id, email, fails, counted)

BlockProfile(q, id, email, fails, counted) ==
    SetStatus(q, "block", Block, id, email, fails, counted)

----------------------------------------------------------------------------
(* POST /admin/delete: up to three external calls, one step each *)

\* `user_id = payload.id`, replaced by the id the lookup by email found when
\* payload.id is falsy.
ResolveUserId(id, looked) == IF ~Truthy(id) /\ Truthy(looked) THEN looked ELSE id

\* delete_user is called after the row deletion returned, `if user_id`.
DeleteUserReached(deleteFails, user_id) == ~deleteFails /\ Truthy(user_id)

\* Mutant of DeleteCode: no inner try, a failed delete_user reaches the outer
\* `except` and becomes a 400.
DeleteCodePropagates(lookupFails, deleteFails, userFails) ==
    IF lookupFails \/ deleteFails \/ userFails THEN 400 ELSE 200

\* The inner `try/except Exception: pass`: a failed delete_user is not an error.
DeleteCode(lookupFails, deleteFails, userFails) ==
    IF lookupFails \/ deleteFails THEN 400 ELSE 200

\* A delete request arrives: validation of the payload, the identifier
\* check, `user_id = payload.id`, and, `if not user_id and payload.email`,
\* the lookup of the row's id.
DelLookup(q, id, email, fails, counted) ==
    LET r == Request("delete", "select", id, email, None, None)
    IN  /\ Arrives(q, counted)
        /\ IF ~EmailStrValid(email)
           THEN ~fails /\ Reject(r, "validation", 422)
           ELSE IF MissingIdentifier(id, email)
           THEN ~fails /\ Reject(r, "none", 400)
           ELSE IF ~Truthy(id) /\ Truthy(email)
                THEN IF fails
                     THEN Answer(q, r, "select", DeleteCode(TRUE, FALSE, FALSE), None, <<>>)
                     ELSE Goto(q, r, "delete",
                               ResolveUserId(id, LookupIdByEmail(profiles, email.val)), <<>>)
                ELSE /\ ~fails
                     /\ reqs' = [reqs EXCEPT ![q] = [r EXCEPT !.pc = "delete",
                                                              !.user_id = ResolveUserId(id, None)]]
                     /\ resp' = NoResponse
        /\ regId' = NoRegId
        /\ prevStatus' = None
        /\ UNCHANGED <<users, profiles, nextId, lastStatus>>

\* delete_profile: table("profiles").delete() with the filters, then
\* `if user_id`.
DelRows(q, fails) ==
    LET r == reqs[q]
        deleted == IF fails THEN <<>> ELSE MatchRows(profiles, r.id, r.email)
    IN  /\ r.pc = "delete"
        /\ profiles' = IF fails THEN profiles ELSE DeleteRows(profiles, r.id, r.email)
        /\ lastStatus' = DroppedStatus(lastStatus, deleted)
        /\ IF DeleteUserReached(fails, r.user_id)
           THEN Goto(q, r, "delete_user", r.user_id, deleted)
           ELSE Answer(q, r, IF fails THEN "delete" ELSE "none",
                       DeleteCode(FALSE, fails, FALSE), r.user_id, deleted)
        /\ prevStatus' = None
        /\ UNCHANGED <<users, nextId, regId, started>>

\* delete_profile: auth.admin.delete_user inside try/except; deleting a
\* missing account raises.  The request is answered either way.
DelUser(q, fails) ==
    LET r == reqs[q]
        bad == fails \/ ~AccountExists(users, r.user_id.val)
        code == DeleteCode(FALSE, FALSE, bad)
    IN  /\ r.pc = "delete_user"
        /\ users' = IF bad THEN users ELSE DeleteUser(users, r.user_id.val)
        /\ Answer(q, r, IF bad THEN "delete_user" ELSE "none", code, r.user_id,
                  IF code = 200 THEN r.data ELSE <<>>)
        /\ prevStatus' = None
        /\ UNCHANGED <<profiles, nextId, regId, started, lastStatus>>

----------------------------------------------------------------------------
(* Sequential runs: one worker, so a request is answered before the next   *)
(* one arrives.  Any number of requests.                                   *)

Next ==
    \/ \E p \in Payloads, fails \in BOOLEAN : RegLookup(1, p, fails, FALSE)
    \/ \E fault \in CreateFaults : RegCreate(1, fault)
    \/ \E fails \in BOOLEAN : RegUpsert(1, fails)
    \/ \E s \in ListParams, fails \in BOOLEAN : ListProfiles(1, s[1], s[2], fails, FALSE)
    \/ \E id \in IdParams(nextId), e \in EmailParams, fails \in BOOLEAN :
           Approve(1, id, e, fails, FALSE)
    \/ \E id \in IdParams(nextId), e \in EmailParams, fails \in BOOLEAN :
           BlockProfile(1, id, e, fails, FALSE)
    \/ \E id \in IdParams(nextId), e \in EmailParams, fails \in BOOLEAN :
           DelLookup(1, id, e, fails, FALSE)
    \/ \E fails \in BOOLEAN : DelRows(1, fails)
    \/ \E fails \in BOOLEAN : DelUser(1, fails)

Spec == Init /\ [][Next]_vars

----------------------------------------------------------------------------
(* Concurrent runs: the handlers are synchronous functions that the server *)
(* runs in a thread pool, with no lock and no transaction, so the external *)
(* calls of requests in different workers interleave.  At most MaxStarted  *)
(* requests.                                                               *)

NextConc ==
    \/ \E q \in Procs, p \in Payloads, fails \in BOOLEAN : RegLookup(q, p, fails, TRUE)
    \/ \E q \in Procs, fault \in CreateFaults : RegCreate(q, fault)
    \/ \E q \in Procs, fails \in BOOLEAN : RegUpsert(q, fails)
    \/ \E q \in Procs, s \in ListParams, fails \in BOOLEAN :
           ListProfiles(q, s[1], s[2], fails, TRUE)
    \/ \E q \in Procs, id \in IdParams(nextId), e \in EmailParams, fails \in BOOLEAN :
           Approve(q, id, e, fails, TRUE)
    \/ \E q \in Procs, id \in IdParams(nextId), e \in EmailParams, fails \in BOOLEAN :
           BlockProfile(q, id, e, fails, TRUE)
    \/ \E q \in Procs, id \in IdParams(nextId), e \in EmailParams, fails \in BOOLEAN :
           DelLookup(q, id, e, fails, TRUE)
    \/ \E q \in Procs, fails \in BOOLEAN : DelRows(q, fails)
    \/ \E q \in Procs, fails \in BOOLEAN : DelUser(q, fails)

SpecConc == Init /\ [][NextConc]_vars

AllCompleted == started > 0 /\ \A q \in Procs : reqs[q].pc = "idle"

----------------------------------------------------------------------------
(* Properties.  The filter and the status sets are restated here on their  *)
(* own terms, not through the operators of the model.                      *)

Given(o) == o.present /\ Len(o.val) > 0

\* Row r matches every supplied identifier.
Selected(r, id, email) ==
    /\ Given(id) => r.id = id.val
    /\ Given(email) => r.email = email.val

Statuses == {Pending, Approved, Block}
CallSet(r) == {r.calls[i] : i \in 1..Len(r.calls)}
RowWithId(rows, uid) == {r \in RowSet(rows) : r.id = uid}
WithStatus(rows, st) == {r \in RowSet(rows) : r.status = st}

\* Every spelling of "all" in upper and lower case.
AllSpellings ==
    {<<a, l1, l2>> : a \in {"a", "A"}, l1 \in {"l", "L"}, l2 \in {"l", "L"}}

\* Worker q makes the external call `call` of its request in this step.
Makes(q, call) == reqs[q].pc = call /\ reqs'[q] # reqs[q]

\* The step of C1.
C1_Step ==
    (/\ resp'.op = "register"
     /\ resp'.code = 200
     /\ Truthy(regId[resp'.email.val]))
    => /\ resp'.user_id = regId[resp'.email.val]
       /\ "create_user" \notin CallSet(resp')
       /\ users' = users
       /\ RowWithId(profiles', resp'.user_id.val) # {}
       /\ \A r \in RowWithId(profiles', resp'.user_id.val) : r.status = Pending

\* C1: in a sequential run, a successful Register of an email that a
\* successful Register already returned an id for, with no Delete request
\* since, returns the same user_id, has not called create_user, and leaves
\* that id's row with status pending.
C1_ReRegisterSameIdPending == [][C1_Step]_vars

\* C1 witness: a second successful Register reset an approved row to pending.
C1_Witness ==
    /\ resp.op = "register"
    /\ resp.code = 200
    /\ prevStatus = Some(Approved)
    /\ resp.user_id = regId[resp.email.val]
    /\ resp.calls = <<"get_user_by_email", "upsert">>
    /\ \E r \in RowWithId(profiles, resp.user_id.val) : r.status = Pending

\* A row that appears in a step has status pending.
CreatedPending ==
    \A r \in RowSet(profiles') :
        RowWithId(profiles, r.id) = {} => r.status = Pending

\* The step of C2 as stated.
C2_OriginalStep ==
    /\ CreatedPending
    /\ \A r \in RowSet(profiles) : \A t \in RowWithId(profiles', r.id) :
           t.status # r.status => resp'.op \in {"approve", "block"}

\* C2 as stated: a row is created pending, and the status of an existing row
\* changes only in an Approve or Block step.
C2_Original == [][C2_OriginalStep]_vars

\* The step of C2 as amended.
C2_AmendedStep ==
    /\ CreatedPending
    /\ \A r \in RowSet(profiles) : \A t \in RowWithId(profiles', r.id) :
           t.status # r.status =>
               \/ resp'.op = "approve" /\ t.status = Approved
               \/ resp'.op = "block" /\ t.status = Block
               \/ /\ resp'.op = "register"
                  /\ resp'.code = 200
                  /\ resp'.user_id.val = r.id
                  /\ t.status = Pending

\* C2 amended: in every step of concurrent requests, a row is created
\* pending, and the status of an existing row changes only in the call of an
\* Approve or Block, or in the upsert of a successful Register that returns
\* the row's id, which sets it to pending.
C2_StatusChangesOnlyByAdminOrRegister == [][C2_AmendedStep]_vars

\* C2 witness: a Register has just reset a blocked row to pending.
C2_Witness ==
    /\ resp.op = "register"
    /\ resp.code = 200
    /\ prevStatus = Some(Block)
    /\ \E r \in RowWithId(profiles, resp.user_id.val) : r.status = Pending

\* The step of C3.
C3_Step ==
    (resp'.op \in {"approve", "block"} /\ resp'.code = 200)
    => LET st == IF resp'.op = "approve" THEN Approved ELSE Block
           hit(r) == Selected(r, resp'.id, resp'.email)
       IN  /\ Given(resp'.id) \/ Given(resp'.email)
           /\ Len(profiles') = Len(profiles)
           /\ \A i \in 1..Len(profiles) :
                  profiles'[i] = IF hit(profiles[i])
                                 THEN [profiles[i] EXCEPT !.status = st]
                                 ELSE profiles[i]
           /\ RowSet(resp'.data) = {profiles'[i] : i \in {j \in 1..Len(profiles) : hit(profiles[j])}}
           /\ Len(resp'.data) = Cardinality(RowSet(resp'.data))
           /\ users' = users
           /\ \A r \in RowSet(resp'.data) : \A s \in Statuses :
                  (r \in RowSet(ListRows(profiles', Some(s), None))) <=> (s = st)

\* C3: a successful Approve (Block) sets status approved (block) on exactly
\* the rows matching every supplied identifier, returns those rows, changes
\* nothing else, and each returned row is in the list filtered by the new
\* status and in no list filtered by another status.
C3_ApproveBlockExactlyMatching == [][C3_Step]_vars

\* C3 witness: an Approve with both id and email updated one of two rows.
C3_Witness ==
    /\ resp.op = "approve"
    /\ resp.code = 200
    /\ Given(resp.id) /\ Given(resp.email)
    /\ Len(resp.data) = 1
    /\ Len(profiles) = 2
    /\ \E r \in RowSet(profiles) : r.status # Approved

\* The step of C4.
C4_Step ==
    (/\ resp'.op \in {"approve", "block", "delete"}
     /\ ~Given(resp'.id)
     /\ ~Given(resp'.email))
    => /\ resp'.code = 400
       /\ resp'.calls = <<>>
       /\ profiles' = profiles
       /\ users' = users
       /\ reqs' = reqs

\* C4: Approve, Block or Delete with neither id nor email (each absent or
\* empty) answers 400 at once, makes no external call, and changes no row
\* and no account.
C4_MissingIdentifierRejected == [][C4_Step]_vars

\* The step of C5.
C5_Step ==
    /\ (/\ resp'.op = "delete"
        /\ resp'.code = 200
        /\ Given(resp'.id)
        /\ ~Given(resp'.email))
       => \A s \in ListParams : \A r \in RowSet(ListRows(profiles', s[1], s[2])) :
              r.id # resp'.id.val
    /\ (/\ resp'.op \in {"approve", "block"}
        /\ Given(resp'.id) \/ Given(resp'.email)
        /\ \A r \in RowSet(profiles) : ~Selected(r, resp'.id, resp'.email))
       => /\ profiles' = profiles
          /\ resp'.failed = "none" => resp'.code = 200 /\ resp'.data = <<>>
    /\ \A q \in Procs :
           (/\ Makes(q, "delete")
            /\ \A r \in RowSet(profiles) : ~Selected(r, reqs[q].id, reqs[q].email))
           => /\ profiles' = profiles
              /\ reqs'[q].pc = "delete_user" => reqs'[q].data = <<>>
              /\ (resp'.op = "delete" /\ resp'.failed = "none")
                     => resp'.code = 200 /\ resp'.data = <<>>
    /\ \A q \in Procs :
           Makes(q, "delete_user")
           => /\ resp'.op = "delete"
              /\ resp'.code = 200
              /\ resp'.data = reqs[q].data
              /\ profiles' = profiles

\* C5: in a sequential run, after a successful Delete by id alone no list
\* contains a row with that id; an Approve, Block or Delete whose identifiers
\* match no row changes no row and, unless its table call fails, answers 200
\* with an empty list.
C5_DeleteRemovesAndNoMatchSucceeds == [][C5_Step]_vars

\* C5 witness: a Delete by id of a row and account already deleted answered
\* 200 with an empty list while another row remained.
C5_Witness ==
    /\ resp.op = "delete"
    /\ resp.code = 200
    /\ Given(resp.id) /\ ~Given(resp.email)
    /\ resp.data = <<>>
    /\ resp.failed = "delete_user"
    /\ ~AccountExists(users, resp.id.val)
    /\ Len(profiles) > 0

\* C6: with no search, a list request whose status is absent, empty or
\* "all" in any letter case selects every row; one whose status is pending,
\* approved or block selects exactly the rows with that status; the three
\* selections are pairwise disjoint and together are all the rows; and a list
\* response just returned holds the selection of its request.
C6_ListPartitionsByStatus ==
    /\ \A st \in {None, Some(<<>>)} \cup {Some(a) : a \in AllSpellings} :
           ListRows(profiles, st, None) = profiles
    /\ \A s \in Statuses :
           /\ RowSet(ListRows(profiles, Some(s), None)) = WithStatus(profiles, s)
           /\ Len(ListRows(profiles, Some(s), None)) = Cardinality(WithStatus(profiles, s))
    /\ \A s \in Statuses : \A t \in Statuses \ {s} :
           RowSet(ListRows(profiles, Some(s), None))
               \cap RowSet(ListRows(profiles, Some(t), None)) = {}
    /\ UNION {RowSet(ListRows(profiles, Some(s), None)) : s \in Statuses}
           = RowSet(ListRows(profiles, None, None))
    /\ \A r \in RowSet(profiles) : Cardinality({s \in Statuses : r.status = s}) = 1
    /\ (resp.op = "list" /\ resp.code = 200 /\ ~Given(resp.search))
       => resp.data =
            IF ~Given(resp.status) \/ resp.status.val \in AllSpellings
            THEN profiles
            ELSE SelectSeq(profiles, LAMBDA r : r.status = resp.status.val)

\* C6 witness: a list request with status "AlL" returned two rows of
\* different status.
C6_Witness ==
    /\ resp.op = "list"
    /\ resp.code = 200
    /\ resp.status = Some(<<"A", "l", "L">>)
    /\ Len(resp.data) = 2
    /\ resp.data[1].status # resp.data[2].status

\* The step of C7.
C7_Step ==
    /\ (/\ resp'.op = "delete"
        /\ resp'.code # 422
        /\ Given(resp'.id) \/ Given(resp'.email))
       => /\ resp'.calls \in {<<"select">>, <<"select", "delete">>,
                              <<"select", "delete", "delete_user">>,
                              <<"delete">>, <<"delete", "delete_user">>}
          /\ ("select" \in CallSet(resp')) <=> ~Given(resp'.id)
    /\ \A q \in Procs :
           (reqs[q].pc = "idle" /\ reqs'[q].op = "delete")
           => LET id == reqs'[q].id
                  byEmail == {r \in RowSet(profiles) : r.email = reqs'[q].email.val}
              IN  /\ reqs'[q].pc = "delete"
                  /\ reqs'[q].user_id = IF Given(id) THEN id
                                        ELSE IF byEmail # {}
                                             THEN Some((CHOOSE r \in byEmail : TRUE).id)
                                             ELSE id
                  /\ profiles' = profiles
                  /\ users' = users
    /\ \A q \in Procs :
           Makes(q, "delete")
           => LET hits == {r \in RowSet(profiles) : Selected(r, reqs[q].id, reqs[q].email)}
                  kept == SelectSeq(profiles, LAMBDA r : ~Selected(r, reqs[q].id, reqs[q].email))
              IN  /\ users' = users
                  /\ "delete_user" \notin CallSet(reqs[q])
                  /\ \/ /\ resp'.op = "delete"
                        /\ resp'.failed = "delete"
                        /\ resp'.code = 400
                        /\ "delete_user" \notin CallSet(resp')
                        /\ profiles' = profiles
                     \/ /\ Given(reqs[q].user_id)
                        /\ reqs'[q].pc = "delete_user"
                        /\ reqs'[q].user_id = reqs[q].user_id
                        /\ RowSet(reqs'[q].data) = hits
                        /\ profiles' = kept
                     \/ /\ ~Given(reqs[q].user_id)
                        /\ resp'.op = "delete"
                        /\ resp'.failed = "none"
                        /\ resp'.code = 200
                        /\ RowSet(resp'.data) = hits
                        /\ profiles' = kept
    /\ \A q \in Procs :
           Makes(q, "delete_user")
           => /\ reqs[q].calls # <<>>
              /\ reqs[q].calls[Len(reqs[q].calls)] = "delete"
              /\ Given(reqs[q].user_id)
              /\ resp'.op = "delete"
              /\ resp'.code = 200
              /\ resp'.data = reqs[q].data
              /\ profiles' = profiles
              /\ resp'.failed \in {"none", "delete_user"}
              /\ resp'.failed = "delete_user" => users' = users
              /\ resp'.failed = "none" =>
                     users' = {u \in users : u.id # reqs[q].user_id.val}

\* C7: a Delete with an identifier that passes request validation calls, in
\* this order, the lookup by email (only when no id is supplied), the row
\* deletion, and the account deletion (only after the row deletion succeeded
\* and an account id was resolved: the supplied id, else the id of the row
\* with the supplied email).  A failed
\* account deletion still answers 200 with the deleted rows and changes no
\* row and no account; a failed row deletion answers 400, deletes no row and
\* attempts no account deletion.
C7_DeleteOrderAndSwallow == [][C7_Step]_vars

\* C7 witness: a Delete by email deleted the row, its account deletion
\* failed, the answer was 200 and the account remains.
C7_Witness ==
    /\ resp.op = "delete"
    /\ resp.failed = "delete_user"
    /\ resp.code = 200
    /\ resp.calls = <<"select", "delete", "delete_user">>
    /\ Len(resp.data) = 1
    /\ AccountExists(users, resp.user_id.val)
    /\ RowWithId(profiles, resp.user_id.val) = {}

\* The step of C8.
C8_Step ==
    (resp'.op = "register" /\ resp'.failed # "none")
    => /\ resp'.code = 400
       /\ profiles' = profiles
       /\ users' = users
       /\ Len(resp'.calls) = Cardinality(CallSet(resp'))
       /\ resp'.failed = "get_user_by_email" =>
              resp'.calls = <<"get_user_by_email">>
       /\ resp'.failed \in {"create_user", "create_user_empty"} =>
              resp'.calls = <<"get_user_by_email", "create_user">>
       /\ resp'.failed = "upsert" =>
              resp'.calls \in {<<"get_user_by_email", "upsert">>,
                               <<"get_user_by_email", "create_user", "upsert">>}

\* C8: a Register in which an external call fails answers 400 after making
\* each call at most once and writes no row; the failing call and the answer
\* change no account, so an account the request created before its upsert
\* failed is not rolled back.
C8_RegisterFailureNoRollback == [][C8_Step]_vars

\* C8 witness: the upsert failed after the request created an account; the
\* account exists and has no row.
C8_Witness ==
    /\ resp.op = "register"
    /\ resp.failed = "upsert"
    /\ resp.code = 400
    /\ resp.calls = <<"get_user_by_email", "create_user", "upsert">>
    /\ \E u \in users : u.email = resp.email.val /\ RowWithId(profiles, u.id) = {}

\* C9: in a sequential run, every row's id is the id of an existing
\* identity-provider account.
C9_RowsHaveAccounts ==
    \A r \in RowSet(profiles) : AccountExists(users, r.id)

\* C10: once all concurrent requests have completed, no row's id refers to a
\* deleted account and every row's status is the one the last status-writing
\* call on that row wrote.
C10_ConcurrentRegisterDeleteConsistent ==
    AllCompleted =>
        /\ \A r \in RowSet(profiles) : AccountExists(users, r.id)
        /\ \A r \in RowSet(profiles) : lastStatus[r.id[1]] = Some(r.status)

====
